---- MODULE Spec2Model ----
(***************************************************************************)
(* A model of sec51/cryptoengine: the key store (file_utils), the nonce    *)
(* deriver (hkdf.go), the CryptoEngine and the Message wire codec.         *)
(*                                                                         *)
(* Byte strings are sequences of naturals below 256.  A nil slice is the   *)
(* marker NilSlice.  A uint64 is kept with its width as four 16-bit limbs, *)
(* most significant first.  The NaCl primitives and HKDF are external; they*)
(* are modelled by small algebraic stand-ins that keep the properties the  *)
(* engine relies on (Open inverts Seal under the same key and nonce and    *)
(* rejects everything else, Precompute is a Diffie-Hellman agreement).     *)
(***************************************************************************)
EXTENDS Integers, Sequences, FiniteSets, TLC

VARIABLES
    files,      \* the key folder: file name -> [exists, data]
    engines,    \* engine slot -> CryptoEngine struct (with ready flag)
    rnd,        \* context -> number of draws made from crypto/rand for its keys
    calls,      \* number of engine operations performed so far
    faulty,     \* number of InitCryptoEngine calls that met a failing system call
    lastOp,     \* record describing the last operation and its result
    tcp,        \* the Message under transport (sender side)
    wire,       \* bytes on the wire
    stored,     \* [m, err]: result of MessageFromBytes on the receiver
    phase,      \* position of the codec / transport pipeline
    threads,    \* thread -> position and locals of a concurrent Encrypt call
    issued,     \* sequence of [thread, counter, m] of finished Encrypts
    writers     \* writer -> position and locals of a concurrent WriteFile

vars == <<files, engines, rnd, calls, faulty, lastOp, tcp, wire, stored, phase,
          threads, issued, writers>>

-----------------------------------------------------------------------------
(* Program constants                                                       *)

secretKeyVersion == 0
publicKeyVersion == 1
nonceSize == 24
keySize == 32
\* secretbox.Overhead / box.Overhead: the authenticator Seal prepends
Overhead == 16
\* 8 + 4 + nonceSize
minimumDataSize == 8 + 4 + nonceSize

NoError == "nil"
KeyNotValidError == "KeyNotValidError"
MessageDecryptionError == "MessageDecryptionError"
MessageParsingError == "MessageParsingError"
messageEmpty == "messageEmpty"
ErrExist == "os.ErrExist"

-----------------------------------------------------------------------------
(* Slices and fixed-width integers                                         *)

NilSlice == <<-1>>

GoLen(s) == IF s = NilSlice THEN 0 ELSE Len(s)

Bytes(s) == IF s = NilSlice THEN <<>> ELSE s

Fill(n, b) == [i \in 1..n |-> b]

\* data[lo:hi] with Go's 0-based half-open bounds
Slice(s, lo, hi) == [i \in 1..(hi - lo) |-> s[lo + i]]

\* copy(dst, src): returns the new dst and the number of bytes copied
CopyInto(dst, src) ==
    LET n == IF Len(dst) < GoLen(src) THEN Len(dst) ELSE GoLen(src)
    IN  [dst |-> [i \in 1..Len(dst) |-> IF i <= n THEN src[i] ELSE dst[i]],
         total |-> n]

\* uint64(n) for a small non-negative int n
U64(n) == <<0, 0, n \div 65536, n % 65536>>

-----------------------------------------------------------------------------
(* github.com/sec51/convert/bigendian                                      *)

\* bigendian.ToUint64: 8 bytes, most significant first
ToUint64(u) ==
    <<u[1] \div 256, u[1] % 256, u[2] \div 256, u[2] % 256,
      u[3] \div 256, u[3] % 256, u[4] \div 256, u[4] % 256>>

\* bigendian.FromUint64
FromUint64(b) ==
    <<b[1] * 256 + b[2], b[3] * 256 + b[4], b[5] * 256 + b[6], b[7] * 256 + b[8]>>

\* bigendian.ToInt: the low 32 bits of the int, most significant byte first
ToInt(v) ==
    LET w == IF v < 0 THEN v + 2147483647 + 1 ELSE v
        top == IF v < 0 THEN 128 ELSE 0
    IN  <<top + (w \div 16777216), (w \div 65536) % 256, (w \div 256) % 256, w % 256>>

\* bigendian.FromInt: the 32 bits read as a two's complement int
FromInt(b) ==
    LET top == IF b[1] >= 128 THEN b[1] - 256 ELSE b[1]
    IN  ((top * 256 + b[2]) * 256 + b[3]) * 256 + b[4]

-----------------------------------------------------------------------------
(* Message and its wire codec                                              *)

ZeroNonce == Fill(nonceSize, 0)

\* Message{}: the zero value
EmptyMessage == [length |-> U64(0), version |-> 0, nonce |-> ZeroNonce, message |-> NilSlice]

\* the version written as one byte, as the layout comment of ToBytes has it
ToBytes_OneByteVersion(m) ==
    [data |-> ToUint64(m.length) \o <<ToInt(m.version)[4]>> \o m.nonce \o Bytes(m.message),
     err |-> NoError]

ToBytes(m) ==
    [data |-> ToUint64(m.length) \o ToInt(m.version) \o m.nonce \o Bytes(m.message),
     err |-> NoError]

\* a parser that rejects a length field other than the number of bytes received
MessageFromBytes_LengthValidated(data) ==
    IF data = NilSlice THEN [m |-> EmptyMessage, err |-> MessageParsingError]
    ELSE IF Len(data) < minimumDataSize + 1 THEN [m |-> EmptyMessage, err |-> MessageParsingError]
    ELSE IF FromUint64(Slice(data, 0, 8)) # U64(Len(data))
    THEN [m |-> EmptyMessage, err |-> MessageParsingError]
    ELSE [m |-> [length |-> FromUint64(Slice(data, 0, 8)),
                 version |-> FromInt(Slice(data, 8, 12)),
                 nonce |-> Slice(data, 12, 12 + nonceSize),
                 message |-> Slice(data, minimumDataSize, Len(data))],
          err |-> NoError]

\* the size check without the one ciphertext byte
MessageFromBytes_NoPayloadByte(data) ==
    IF data = NilSlice THEN [m |-> EmptyMessage, err |-> MessageParsingError]
    ELSE IF Len(data) < minimumDataSize THEN [m |-> EmptyMessage, err |-> MessageParsingError]
    ELSE [m |-> [length |-> FromUint64(Slice(data, 0, 8)),
                 version |-> FromInt(Slice(data, 8, 12)),
                 nonce |-> Slice(data, 12, 12 + nonceSize),
                 message |-> Slice(data, minimumDataSize, Len(data))],
          err |-> NoError]

MessageFromBytes(data) ==
    IF data = NilSlice THEN [m |-> EmptyMessage, err |-> MessageParsingError]
    ELSE IF Len(data) < minimumDataSize + 1 THEN [m |-> EmptyMessage, err |-> MessageParsingError]
    ELSE LET lenght == Slice(data, 0, 8)
             version == Slice(data, 8, 12)
             nonce == Slice(data, 12, 12 + nonceSize)
             message == Slice(data, minimumDataSize, Len(data))
             lengthData == CopyInto(Fill(8, 0), lenght)
             versionData == CopyInto(Fill(4, 0), version)
             nonceData == CopyInto(Fill(nonceSize, 0), nonce)
         IN  IF lengthData.total # 8 THEN [m |-> EmptyMessage, err |-> MessageParsingError]
             ELSE IF versionData.total # 4 THEN [m |-> EmptyMessage, err |-> MessageParsingError]
             ELSE IF nonceData.total # nonceSize THEN [m |-> EmptyMessage, err |-> MessageParsingError]
             ELSE [m |-> [length |-> FromUint64(lengthData.dst),
                          version |-> FromInt(versionData.dst),
                          nonce |-> nonceData.dst,
                          message |-> message],
                   err |-> NoError]

\* Fuzz: 1 when the input parses, 0 otherwise
Fuzz(data) == IF MessageFromBytes(data).err = NoError THEN 1 ELSE 0

-----------------------------------------------------------------------------
(* External primitives: NaCl secretbox / box, HKDF                         *)

\* a position-weighted checksum of a byte string (stands for Poly1305 / Salsa20 mixing)
Mix(s) ==
    LET t == [i \in 1..Len(s) |-> s[i]]
        f[j \in 0..Len(s)] == IF j = 0 THEN 0 ELSE f[j - 1] + (2 * j - 1) * (t[j] + 1)
    IN  f[Len(s)]

Stream(seed, i) == (seed + i) % 256

Authenticator(key, nonce, body) ==
    LET t == Mix(key \o nonce \o body)
    IN  Fill(Overhead - 4, 0) \o ToInt(t)

\* secretbox.Seal(nil, message, &nonce, &key): authenticator followed by the masked bytes
SecretboxSeal(message, nonce, key) ==
    LET seed == Mix(key) + Mix(nonce)
        body == [i \in 1..Len(message) |-> (message[i] + Stream(seed, i)) % 256]
    IN  Authenticator(key, nonce, body) \o body

\* secretbox.Open(nil, box, &nonce, &key)
SecretboxOpen(box, nonce, key) ==
    IF GoLen(box) < Overhead THEN [valid |-> FALSE, out |-> NilSlice]
    ELSE LET body == Slice(box, Overhead, Len(box))
             seed == Mix(key) + Mix(nonce)
         IN  IF Slice(box, 0, Overhead) # Authenticator(key, nonce, body)
             THEN [valid |-> FALSE, out |-> NilSlice]
             ELSE [valid |-> TRUE,
                   out |-> [i \in 1..Len(body) |-> (body[i] + 256 - Stream(seed, i)) % 256]]

GroupPrime == 251
GroupBase == 6

RECURSIVE ModExp(_, _)
ModExp(b, e) == IF e = 0 THEN 1 ELSE (b * ModExp(b, e - 1)) % GroupPrime

\* a 32-byte key whose bytes all carry the value v
KeyBytes(v) == Fill(keySize, v)

\* box.Precompute(&shared, &peerPublicKey, &privateKey): Diffie-Hellman agreement
Precompute(peerPublicKey, privateKey) == KeyBytes(ModExp(peerPublicKey[1], privateKey[1]))

\* box.GenerateKey(rand.Reader) with the random scalar r
GenerateKey(r) == [public |-> KeyBytes(ModExp(GroupBase, r)), private |-> KeyBytes(r)]

\* box.Seal(nil, message, &nonce, &peerPublicKey, &privateKey)
BoxSeal(message, nonce, peerPublicKey, privateKey) ==
    SecretboxSeal(message, nonce, Precompute(peerPublicKey, privateKey))

\* box.OpenAfterPrecomputation(nil, box, &nonce, &sharedKey)
OpenAfterPrecomputation(box, nonce, sharedKey) == SecretboxOpen(box, nonce, sharedKey)

CharCode ==
    ("a" :> 97) @@ ("b" :> 98) @@ ("_" :> 95) @@ ("A" :> 65) @@ ("B" :> 66) @@ (" " :> 32)
    @@ ("0" :> 48) @@ ("1" :> 49) @@ ("2" :> 50) @@ ("3" :> 51) @@ ("4" :> 52)
    @@ ("5" :> 53) @@ ("6" :> 54) @@ ("7" :> 55) @@ ("8" :> 56) @@ ("9" :> 57)

\* []byte(s) for a string kept as a sequence of characters
StringBytes(s) == [i \in 1..Len(s) |-> CharCode[s[i]]]

\* io.ReadFull(hkdf.New(sha256.New, secret, salt, info), out[:n]): a collision-free
\* expansion of (secret, salt, info) for infos of at most n - 3 bytes
HkdfRead(secret, salt, info, n) ==
    [i \in 1..n |->
        IF i = 1 THEN secret[1]
        ELSE IF i = 2 THEN salt[1]
        ELSE IF i = 3 THEN Len(info)
        ELSE IF i - 3 <= Len(info) THEN info[i - 3] ELSE 0]

-----------------------------------------------------------------------------
(* hkdf.go                                                                 *)

Digits == <<"0", "1", "2", "3", "4", "5", "6", "7", "8", "9">>

\* the last decimal digit alone
Decimal_LastDigit(n) == <<Digits[(n % 10) + 1]>>

RECURSIVE Decimal(_)
\* %d of a uint64
Decimal(n) == IF n < 10 THEN <<Digits[n + 1]>> ELSE Decimal(n \div 10) \o <<Digits[(n % 10) + 1]>>

\* the label without the counter
InfoLabel_ContextOnly(context, counter) == context

\* fmt.Sprintf("%s%d", context, counter)
InfoLabel(context, counter) == context \o Decimal(counter)

deriveNonce(masterKey, salt, context, counter) ==
    LET key == HkdfRead(masterKey, salt, StringBytes(InfoLabel(context, counter)), nonceSize)
        data24 == CopyInto(Fill(nonceSize, 0), key)
    IN  IF data24.total # nonceSize
        THEN [nonce |-> Fill(nonceSize, 0), err |-> "Could not derive a nonce."]
        ELSE [nonce |-> data24.dst, err |-> NoError]

-----------------------------------------------------------------------------
(* file_utils: the key folder                                              *)

Kinds == {"salt", "secret", "nonce", "public", "private"}

\* fmt.Sprintf(saltSuffixFormat, id) and its siblings: "<id>_<kind>.key"
FileName(kind, id) == <<id, kind>>

NoFile == [exists |-> FALSE, data |-> <<>>]

\* os.Stat(filename) succeeds
FileExists(fs, filename) == fs[filename].exists

\* ioutil.ReadFile; a fault of the read yields no data and an error
ReadFile(fs, filename, F) ==
    IF <<filename, "read">> \in F \/ ~fs[filename].exists
    THEN [data |-> NilSlice, err |-> "read error"]
    ELSE [data |-> fs[filename].data, err |-> NoError]

\* WriteFile without the existence check: O_WRONLY|O_CREATE opens the file and writes
WriteFile_NoExistenceCheck(fs, filename, data, F) ==
    IF <<filename, "open">> \in F THEN [fs |-> fs, err |-> "open error"]
    ELSE [fs |-> [fs EXCEPT ![filename] = [exists |-> TRUE, data |-> data]], err |-> NoError]

\* WriteFile run without interleaving: existence check, os.OpenFile(O_WRONLY|O_CREATE, 0400),
\* file.Write.  F holds the system calls that fail in this run.
WriteFile(fs, filename, data, F) ==
    IF FileExists(fs, filename) THEN [fs |-> fs, err |-> ErrExist]
    ELSE IF <<filename, "open">> \in F THEN [fs |-> fs, err |-> "open error"]
    ELSE IF <<filename, "write">> \in F
         THEN [fs |-> [fs EXCEPT ![filename] = [exists |-> TRUE, data |-> <<>>]],
               err |-> "write error"]
         ELSE [fs |-> [fs EXCEPT ![filename] = [exists |-> TRUE, data |-> data]],
               err |-> NoError]

\* ReadKey: data[:32] of a slice shorter than 32 bytes panics
ReadKey(fs, filename, F) ==
    LET r == ReadFile(fs, filename, F)
    IN  IF GoLen(r.data) < 32
        THEN [key |-> KeyBytes(0), err |-> "panic"]
        ELSE [key |-> CopyInto(Fill(32, 0), Slice(r.data, 0, 32)).dst, err |-> r.err]

DeleteFile(fs, filename, F) ==
    IF FileExists(fs, filename)
    THEN IF <<filename, "remove">> \in F
         THEN [fs |-> fs, err |-> "remove error"]
         ELSE [fs |-> [fs EXCEPT ![filename] = NoFile], err |-> NoError]
    ELSE [fs |-> fs, err |-> NoError]

-----------------------------------------------------------------------------
(* Key loading (crypto.go)                                                 *)

\* crypto/rand: the r-th value drawn for the keys of context id; draws never repeat
RandomDraw(id, r) == (CharCode[id[1]] - 96) * 16 + r

\* generateSalt / generateSecretKey: 32 bytes of rand.Read
generateSecretKey(kind, id, r, F) ==
    IF <<FileName(kind, id), "rand">> \in F
    THEN [key |-> KeyBytes(0), err |-> "rand error"]
    ELSE [key |-> KeyBytes(RandomDraw(id, r)), err |-> NoError]

\* a loader that ignores the stored blob and hands out a fresh key
loadKey_AlwaysFresh(kind, fs, id, r, F) ==
    LET g == generateSecretKey(kind, id, r + 1, F)
    IN  [fs |-> fs, key |-> g.key, err |-> g.err, rnd |-> r + 1]

\* loadSalt, loadSecretKey and loadNonceKey share one body up to the file suffix
loadKey(kind, fs, id, r, F) ==
    LET keyFile == FileName(kind, id)
    IN  IF FileExists(fs, keyFile)
        THEN LET k == ReadKey(fs, keyFile, F)
             IN  [fs |-> fs, key |-> k.key, err |-> k.err, rnd |-> r]
        ELSE LET g == generateSecretKey(kind, id, r + 1, F)
             IN  IF g.err # NoError
                 THEN [fs |-> fs, key |-> g.key, err |-> g.err, rnd |-> r]
                 ELSE LET w == WriteFile(fs, keyFile, g.key, F)
                      IN  [fs |-> w.fs, key |-> g.key, err |-> w.err, rnd |-> r + 1]

loadSalt(fs, id, r, F) == loadKey("salt", fs, id, r, F)

loadSecretKey(fs, id, r, F) == loadKey("secret", fs, id, r, F)

loadNonceKey(fs, id, r, F) == loadKey("nonce", fs, id, r, F)

\* the part of loadKeyPairs that creates the pair: public first, then private, with the
\* compensating delete of the public key
createKeyPair(fs, id, private0, r, F) ==
    LET privateFile == FileName("private", id)
        publicFile == FileName("public", id)
    IN  IF <<publicFile, "rand">> \in F
        THEN [fs |-> fs, public |-> KeyBytes(0), private |-> private0, err |-> "rand error",
              logged |-> FALSE, rnd |-> r]
        ELSE LET kp == GenerateKey(RandomDraw(id, r + 1))
                 w1 == WriteFile(fs, publicFile, kp.public, F)
                 w2 == WriteFile(w1.fs, privateFile, kp.private, F)
                 d == DeleteFile(w2.fs, publicFile, F)
             IN  IF w1.err # NoError
                 THEN [fs |-> w1.fs, public |-> kp.public, private |-> kp.private,
                       err |-> w1.err, logged |-> FALSE, rnd |-> r + 1]
                 ELSE IF w2.err # NoError
                 THEN IF d.err # NoError
                      THEN [fs |-> d.fs, public |-> kp.public, private |-> kp.private,
                            err |-> d.err, logged |-> TRUE, rnd |-> r + 1]
                      ELSE [fs |-> d.fs, public |-> kp.public, private |-> kp.private,
                            err |-> w2.err, logged |-> FALSE, rnd |-> r + 1]
                 ELSE [fs |-> w2.fs, public |-> kp.public, private |-> kp.private,
                       err |-> NoError, logged |-> FALSE, rnd |-> r + 1]

loadKeyPairs(fs, id, r, F) ==
    LET privateFile == FileName("private", id)
        publicFile == FileName("public", id)
        rp == IF FileExists(fs, privateFile)
              THEN ReadKey(fs, privateFile, F)
              ELSE [key |-> KeyBytes(0), err |-> NoError]
    IN  IF rp.err # NoError
        THEN [fs |-> fs, public |-> KeyBytes(0), private |-> rp.key, err |-> rp.err,
              logged |-> FALSE, rnd |-> r]
        ELSE IF FileExists(fs, publicFile)
        THEN LET ru == ReadKey(fs, publicFile, F)
             IN  [fs |-> fs, public |-> ru.key, private |-> rp.key, err |-> ru.err,
                  logged |-> FALSE, rnd |-> r]
        ELSE createKeyPair(fs, id, rp.key, r, F)

-----------------------------------------------------------------------------
(* sanitizeIdentifier on the characters of the model                       *)

ToLowerChar(c) == IF c = "A" THEN "a" ELSE IF c = "B" THEN "b" ELSE c

RECURSIVE TrimLeft(_)
TrimLeft(s) == IF s # <<>> /\ Head(s) = " " THEN TrimLeft(Tail(s)) ELSE s

RECURSIVE TrimRight(_)
TrimRight(s) ==
    IF s # <<>> /\ s[Len(s)] = " " THEN TrimRight(SubSeq(s, 1, Len(s) - 1)) ELSE s

sanitizeIdentifier(id) ==
    LET trimmed == TrimRight(TrimLeft(id))
        lowered == [i \in 1..Len(trimmed) |-> ToLowerChar(trimmed[i])]
    IN  [i \in 1..Len(lowered) |-> IF lowered[i] = " " THEN "_" ELSE lowered[i]]

-----------------------------------------------------------------------------
(* CryptoEngine                                                            *)

\* new(CryptoEngine): every field zero; ready marks a slot that holds an engine
NoEngine ==
    [ready |-> FALSE, context |-> <<>>,
     publicKey |-> KeyBytes(0), privateKey |-> KeyBytes(0), secretKey |-> KeyBytes(0),
     peerPublicKey |-> KeyBytes(0), sharedKey |-> KeyBytes(0),
     salt |-> KeyBytes(0), nonceKey |-> KeyBytes(0),
     preSharedInitialized |-> FALSE, counter |-> 0]

emptyKey == Fill(keySize, 0)

InitCryptoEngine(communicationIdentifier, fs, r, F) ==
    LET context == sanitizeIdentifier(communicationIdentifier)
        s1 == loadSalt(fs, context, r[context], F)
        s2 == loadKeyPairs(s1.fs, context, s1.rnd, F)
        s3 == loadSecretKey(s2.fs, context, s2.rnd, F)
        s4 == loadNonceKey(s3.fs, context, s3.rnd, F)
    IN  IF s1.err # NoError
        THEN [ce |-> NoEngine, err |-> s1.err, fs |-> s1.fs, rnd |-> s1.rnd, logged |-> FALSE]
        ELSE IF s2.err # NoError
        THEN [ce |-> NoEngine, err |-> s2.err, fs |-> s2.fs, rnd |-> s2.rnd, logged |-> s2.logged]
        ELSE IF s3.err # NoError
        THEN [ce |-> NoEngine, err |-> s3.err, fs |-> s3.fs, rnd |-> s3.rnd, logged |-> FALSE]
        ELSE IF s4.err # NoError
        THEN [ce |-> NoEngine, err |-> s4.err, fs |-> s4.fs, rnd |-> s4.rnd, logged |-> FALSE]
        ELSE [ce |-> [NoEngine EXCEPT !.ready = TRUE, !.context = context,
                                      !.salt = s1.key,
                                      !.publicKey = s2.public, !.privateKey = s2.private,
                                      !.secretKey = s3.key, !.nonceKey = s4.key],
              err |-> NoError, fs |-> s4.fs, rnd |-> s4.rnd, logged |-> FALSE]

\* PublicKey(): engine.publicKey[:]
PublicKey(engine) == engine.publicKey

\* The counter source of the nonce derivation: the engine-owned counter, advanced and
\* read in one atomic step; the first value handed out is 1.
ClaimCounter(engine) ==
    [engine |-> [engine EXCEPT !.counter = engine.counter + 1], counter |-> engine.counter + 1]

\* the nil check alone: a zero-length message is sealed
NewEncryptedMessage_NilCheckOnly(engine, message) ==
    IF message = NilSlice THEN [engine |-> engine, m |-> EmptyMessage, err |-> messageEmpty]
    ELSE LET c == ClaimCounter(engine)
             n == deriveNonce(engine.nonceKey, engine.salt, engine.context, c.counter)
             encryptedData == SecretboxSeal(message, n.nonce, engine.secretKey)
         IN  [engine |-> c.engine,
              m |-> [version |-> secretKeyVersion, nonce |-> n.nonce,
                     message |-> encryptedData,
                     length |-> U64(Len(encryptedData) + nonceSize + 4 + 4)],
              err |-> NoError]

\* a symmetric seal under the nonce key instead of the secret key
NewEncryptedMessage_UnderNonceKey(engine, message) ==
    LET c == ClaimCounter(engine)
        n == deriveNonce(engine.nonceKey, engine.salt, engine.context, c.counter)
        encryptedData == SecretboxSeal(message, n.nonce, engine.nonceKey)
    IN  [engine |-> c.engine,
         m |-> [version |-> secretKeyVersion, nonce |-> n.nonce,
                message |-> encryptedData,
                length |-> U64(Len(encryptedData) + nonceSize + 4 + 4)],
         err |-> NoError]

\* NewEncryptedMessage(message)
NewEncryptedMessage(engine, message) ==
    IF message = NilSlice THEN [engine |-> engine, m |-> EmptyMessage, err |-> messageEmpty]
    ELSE IF Len(message) = 0 THEN [engine |-> engine, m |-> EmptyMessage, err |-> messageEmpty]
    ELSE LET c == ClaimCounter(engine)
             n == deriveNonce(engine.nonceKey, engine.salt, engine.context, c.counter)
             encryptedData == SecretboxSeal(message, n.nonce, engine.secretKey)
         IN  IF n.err # NoError
             THEN [engine |-> c.engine, m |-> EmptyMessage, err |-> n.err]
             ELSE [engine |-> c.engine,
                   m |-> [version |-> secretKeyVersion, nonce |-> n.nonce,
                          message |-> encryptedData,
                          length |-> U64(Len(encryptedData) + nonceSize + 4 + 4)],
                   err |-> NoError]

\* sealed with the cached shared key (box.SealAfterPrecomputation) whenever the flag is set
NewEncryptedMessageWithPubKey_SealsWithCache(engine, message, peerPublicKey) ==
    IF message = NilSlice \/ GoLen(message) = 0
    THEN [engine |-> engine, m |-> EmptyMessage, err |-> messageEmpty]
    ELSE IF peerPublicKey = NilSlice \/ GoLen(peerPublicKey) # keySize
                                    \/ peerPublicKey = Fill(keySize, 0)
    THEN [engine |-> engine, m |-> EmptyMessage, err |-> KeyNotValidError]
    ELSE LET c == ClaimCounter([engine EXCEPT !.peerPublicKey = peerPublicKey])
             n == deriveNonce(engine.nonceKey, engine.salt, engine.context, c.counter)
             e2 == IF ~c.engine.preSharedInitialized
                   THEN [c.engine EXCEPT
                            !.sharedKey = Precompute(peerPublicKey, engine.privateKey),
                            !.preSharedInitialized = TRUE]
                   ELSE c.engine
             encryptedData == SecretboxSeal(message, n.nonce, e2.sharedKey)
         IN  [engine |-> e2,
              m |-> [version |-> publicKeyVersion, nonce |-> n.nonce,
                     message |-> encryptedData, length |-> U64(Len(encryptedData))],
              err |-> NoError]

\* the flag set although box.Precompute was never called
NewEncryptedMessageWithPubKey_FlagWithoutPrecompute(engine, message, peerPublicKey) ==
    IF message = NilSlice \/ GoLen(message) = 0
    THEN [engine |-> engine, m |-> EmptyMessage, err |-> messageEmpty]
    ELSE IF peerPublicKey = NilSlice \/ GoLen(peerPublicKey) # keySize
                                    \/ peerPublicKey = Fill(keySize, 0)
    THEN [engine |-> engine, m |-> EmptyMessage, err |-> KeyNotValidError]
    ELSE LET c == ClaimCounter([engine EXCEPT !.peerPublicKey = peerPublicKey])
             n == deriveNonce(engine.nonceKey, engine.salt, engine.context, c.counter)
             encryptedData == BoxSeal(message, n.nonce, peerPublicKey, engine.privateKey)
         IN  [engine |-> [c.engine EXCEPT !.preSharedInitialized = TRUE],
              m |-> [version |-> publicKeyVersion, nonce |-> n.nonce,
                     message |-> encryptedData, length |-> U64(Len(encryptedData))],
              err |-> NoError]

\* the key checks without the comparison against emptyKey
NewEncryptedMessageWithPubKey_NoEmptyKeyCheck(engine, message, peerPublicKey) ==
    IF message = NilSlice \/ GoLen(message) = 0
    THEN [engine |-> engine, m |-> EmptyMessage, err |-> messageEmpty]
    ELSE IF peerPublicKey = NilSlice \/ GoLen(peerPublicKey) # keySize
    THEN [engine |-> engine, m |-> EmptyMessage, err |-> KeyNotValidError]
    ELSE LET c == ClaimCounter([engine EXCEPT !.peerPublicKey = peerPublicKey])
             n == deriveNonce(engine.nonceKey, engine.salt, engine.context, c.counter)
             e2 == IF ~c.engine.preSharedInitialized
                   THEN [c.engine EXCEPT
                            !.sharedKey = Precompute(peerPublicKey, engine.privateKey),
                            !.preSharedInitialized = TRUE]
                   ELSE c.engine
             encryptedData == BoxSeal(message, n.nonce, peerPublicKey, engine.privateKey)
         IN  [engine |-> e2,
              m |-> [version |-> publicKeyVersion, nonce |-> n.nonce,
                     message |-> encryptedData, length |-> U64(Len(encryptedData))],
              err |-> NoError]

\* NewEncryptedMessageWithPubKey(message, peerPublicKey)
NewEncryptedMessageWithPubKey(engine, message, peerPublicKey) ==
    IF message = NilSlice THEN [engine |-> engine, m |-> EmptyMessage, err |-> messageEmpty]
    ELSE IF Len(message) = 0 THEN [engine |-> engine, m |-> EmptyMessage, err |-> messageEmpty]
    ELSE IF peerPublicKey = NilSlice
    THEN [engine |-> engine, m |-> EmptyMessage, err |-> KeyNotValidError]
    ELSE IF Len(peerPublicKey) # keySize
    THEN [engine |-> engine, m |-> EmptyMessage, err |-> KeyNotValidError]
    ELSE IF peerPublicKey = emptyKey
    THEN [engine |-> engine, m |-> EmptyMessage, err |-> KeyNotValidError]
    ELSE LET peerPublicKey32 == CopyInto(Fill(keySize, 0), Slice(peerPublicKey, 0, keySize))
             e1 == [engine EXCEPT !.peerPublicKey = peerPublicKey32.dst]
             c == ClaimCounter(e1)
             n == deriveNonce(e1.nonceKey, e1.salt, e1.context, c.counter)
             e2 == IF ~c.engine.preSharedInitialized
                   THEN [c.engine EXCEPT
                            !.sharedKey = Precompute(c.engine.peerPublicKey, c.engine.privateKey),
                            !.preSharedInitialized = TRUE]
                   ELSE c.engine
             encryptedData == BoxSeal(message, n.nonce, e2.peerPublicKey, e2.privateKey)
         IN  IF peerPublicKey32.total # keySize
             THEN [engine |-> engine, m |-> EmptyMessage, err |-> KeyNotValidError]
             ELSE IF n.err # NoError
             THEN [engine |-> c.engine, m |-> EmptyMessage, err |-> n.err]
             ELSE [engine |-> e2,
                   m |-> [version |-> publicKeyVersion, nonce |-> n.nonce,
                          message |-> encryptedData,
                          length |-> U64(Len(encryptedData))],
                   err |-> NoError]

decryptWithPreShared(engine, m) ==
    LET o == OpenAfterPrecomputation(m.message, m.nonce, engine.sharedKey)
    IN  IF ~o.valid THEN [engine |-> engine, out |-> NilSlice, err |-> MessageDecryptionError]
        ELSE [engine |-> engine, out |-> o.out, err |-> NoError]

\* a version other than the two the package writes is refused
Decrypt_RejectsUnknownVersion(engine, m, otherPeerPublicKey) ==
    LET o == SecretboxOpen(m.message, m.nonce, engine.secretKey)
        e1 == [engine EXCEPT !.peerPublicKey = Slice(otherPeerPublicKey, 0, keySize)]
    IN  IF m.version \notin {secretKeyVersion, publicKeyVersion}
        THEN [engine |-> engine, out |-> NilSlice, err |-> MessageDecryptionError]
        ELSE IF m.version = secretKeyVersion
        THEN IF ~o.valid THEN [engine |-> engine, out |-> NilSlice, err |-> MessageDecryptionError]
             ELSE [engine |-> engine, out |-> o.out, err |-> NoError]
        ELSE IF otherPeerPublicKey = NilSlice \/ GoLen(otherPeerPublicKey) < keySize
        THEN [engine |-> engine, out |-> NilSlice, err |-> KeyNotValidError]
        ELSE IF e1.preSharedInitialized THEN decryptWithPreShared(e1, m)
        ELSE decryptWithPreShared(
                 [e1 EXCEPT !.sharedKey = Precompute(e1.peerPublicKey, e1.privateKey),
                            !.preSharedInitialized = TRUE], m)

\* the peer key stored in the engine before the version is looked at
Decrypt_StoresKeyFirst(engine, m, otherPeerPublicKey) ==
    LET usable == otherPeerPublicKey # NilSlice /\ GoLen(otherPeerPublicKey) >= keySize
        e0 == IF usable
              THEN [engine EXCEPT !.peerPublicKey = Slice(otherPeerPublicKey, 0, keySize)]
              ELSE engine
        o == SecretboxOpen(m.message, m.nonce, e0.secretKey)
    IN  IF m.version = secretKeyVersion
        THEN IF ~o.valid THEN [engine |-> e0, out |-> NilSlice, err |-> MessageDecryptionError]
             ELSE [engine |-> e0, out |-> o.out, err |-> NoError]
        ELSE IF ~usable THEN [engine |-> e0, out |-> NilSlice, err |-> KeyNotValidError]
        ELSE IF e0.preSharedInitialized THEN decryptWithPreShared(e0, m)
        ELSE decryptWithPreShared(
                 [e0 EXCEPT !.sharedKey = Precompute(e0.peerPublicKey, e0.privateKey),
                            !.preSharedInitialized = TRUE], m)

\* the opened bytes returned whatever secretbox.Open says of their validity
Decrypt_IgnoresValid(engine, m, otherPeerPublicKey) ==
    LET body == Slice(m.message, Overhead, Len(m.message))
        seed == Mix(engine.secretKey) + Mix(m.nonce)
    IN  [engine |-> engine,
         out |-> [i \in 1..Len(body) |-> (body[i] + 256 - Stream(seed, i)) % 256],
         err |-> NoError]

\* Decrypt(m, otherPeerPublicKey)
Decrypt(engine, m, otherPeerPublicKey) ==
    IF m.version = secretKeyVersion
    THEN LET o == SecretboxOpen(m.message, m.nonce, engine.secretKey)
         IN  IF ~o.valid THEN [engine |-> engine, out |-> NilSlice, err |-> MessageDecryptionError]
             ELSE [engine |-> engine, out |-> o.out, err |-> NoError]
    ELSE IF otherPeerPublicKey = NilSlice
    THEN [engine |-> engine, out |-> NilSlice, err |-> KeyNotValidError]
    ELSE IF Len(otherPeerPublicKey) < keySize
    THEN [engine |-> engine, out |-> NilSlice, err |-> KeyNotValidError]
    ELSE LET cp == CopyInto(engine.peerPublicKey, Slice(otherPeerPublicKey, 0, keySize))
             e1 == [engine EXCEPT !.peerPublicKey = cp.dst]
         IN  IF cp.total # keySize
             THEN [engine |-> e1, out |-> NilSlice, err |-> KeyNotValidError]
             ELSE IF e1.preSharedInitialized
             THEN decryptWithPreShared(e1, m)
             ELSE decryptWithPreShared(
                      [e1 EXCEPT !.sharedKey = Precompute(e1.peerPublicKey, e1.privateKey),
                                 !.preSharedInitialized = TRUE], m)

-----------------------------------------------------------------------------
(* Bounds and inputs of the model                                          *)

MaxCalls == 3
MaxFaultyInits == 2

Slots == {1, 2, 3}
Peers == {1, 2}
Twins == {1, 3}

\* the communicationIdentifier each slot's engine is constructed with
Identifier == <<(<<"a">>), (<<"B">>), (<<" ", "A">>)>>

Contexts == {sanitizeIdentifier(Identifier[s]) : s \in Slots}

Names == {FileName(k, c) : k \in Kinds, c \in Contexts}

Plaintexts == {<<7>>, <<200, 1>>}

\* a valid public key that belongs to no engine of the model
OtherKey == KeyBytes(7)
ShortKey == Fill(keySize - 1, 7)
LongKey == Fill(keySize + 1, 7)

PeerKeys == {PublicKey(engines[s]) : s \in {t \in Slots : engines[t].ready}}
            \cup {OtherKey, LongKey, NilSlice}

FaultPoints(c) ==
    {<<FileName(k, c), op>> : k \in Kinds, op \in {"open", "write", "rand", "read"}}
    \cup {<<FileName("public", c), "remove">>}

\* the failing system calls of one InitCryptoEngine run: none, one, or a failing write
\* of the private key together with a failing removal of the public key
FaultSets(c) ==
    {{}} \cup {{f} : f \in FaultPoints(c)}
    \cup {{<<FileName("private", c), op>>, <<FileName("public", c), "remove">>} :
             op \in {"open", "write"}}

NoOp ==
    [op |-> "none", engine |-> 0, key |-> NilSlice, plain |-> NilSlice, out |-> NilSlice,
     err |-> NoError, logged |-> FALSE, kpRan |-> FALSE, kpErr |-> NoError]

NoTcp == [m |-> EmptyMessage, from |-> 0, plain |-> NilSlice, peer |-> NilSlice]

NoStored == [m |-> EmptyMessage, err |-> NoError]

\* the variables of the concurrent scenarios, idle in the sequential specification
ConcIdle == threads = <<>> /\ issued = <<>> /\ writers = <<>>

-----------------------------------------------------------------------------
(* Spec: sequential use of the library over one key folder                 *)

Init ==
    /\ files = [n \in Names |-> NoFile]
    /\ engines = [s \in Slots |-> NoEngine]
    /\ rnd = [c \in Contexts |-> 0]
    /\ calls = 0
    /\ faulty = 0
    /\ lastOp = NoOp
    /\ tcp = NoTcp
    /\ wire = NilSlice
    /\ stored = NoStored
    /\ phase = "idle"
    /\ ConcIdle

\* engine := InitCryptoEngine(Identifier[s]) with the system calls of F failing
InitEngine(s, F) ==
    /\ ~engines[s].ready
    /\ F = {} \/ faulty < MaxFaultyInits
    /\ LET c == sanitizeIdentifier(Identifier[s])
           r == InitCryptoEngine(Identifier[s], files, rnd, F)
           salt == loadSalt(files, c, rnd[c], F)
           kp == loadKeyPairs(salt.fs, c, salt.rnd, F)
       IN  /\ files' = r.fs
           /\ rnd' = [rnd EXCEPT ![c] = r.rnd]
           /\ engines' = [engines EXCEPT ![s] = r.ce]
           /\ faulty' = IF F = {} THEN faulty ELSE faulty + 1
           /\ lastOp' = [NoOp EXCEPT !.op = "Init", !.engine = s, !.err = r.err,
                                     !.logged = r.logged,
                                     !.kpRan = (salt.err = NoError),
                                     !.kpErr = IF salt.err = NoError THEN kp.err ELSE NoError]
    /\ UNCHANGED <<calls, tcp, wire, stored, phase, threads, issued, writers>>

\* tcp, err := engines[s].NewEncryptedMessage(p)
EncryptSymmetric(s, p) ==
    /\ engines[s].ready
    /\ phase \in {"idle", "parsed"}
    /\ calls < MaxCalls
    /\ LET r == NewEncryptedMessage(engines[s], p)
       IN  /\ engines' = [engines EXCEPT ![s] = r.engine]
           /\ lastOp' = [NoOp EXCEPT !.op = "EncryptSymmetric", !.engine = s, !.plain = p,
                                     !.err = r.err]
           /\ IF r.err = NoError
              THEN /\ tcp' = [m |-> r.m, from |-> s, plain |-> p, peer |-> NilSlice]
                   /\ wire' = NilSlice
                   /\ stored' = NoStored
                   /\ phase' = "sealed"
              ELSE UNCHANGED <<tcp, wire, stored, phase>>
    /\ calls' = calls + 1
    /\ UNCHANGED <<files, rnd, faulty, threads, issued, writers>>

\* tcp, err := engines[s].NewEncryptedMessageWithPubKey(p, k)
EncryptAsymmetric(s, p, k) ==
    /\ engines[s].ready
    /\ phase \in {"idle", "parsed"}
    /\ calls < MaxCalls
    /\ LET r == NewEncryptedMessageWithPubKey(engines[s], p, k)
       IN  /\ engines' = [engines EXCEPT ![s] = r.engine]
           /\ lastOp' = [NoOp EXCEPT !.op = "EncryptAsymmetric", !.engine = s, !.plain = p,
                                     !.key = k, !.err = r.err]
           /\ IF r.err = NoError
              THEN /\ tcp' = [m |-> r.m, from |-> s, plain |-> p, peer |-> k]
                   /\ wire' = NilSlice
                   /\ stored' = NoStored
                   /\ phase' = "sealed"
              ELSE UNCHANGED <<tcp, wire, stored, phase>>
    /\ calls' = calls + 1
    /\ UNCHANGED <<files, rnd, faulty, threads, issued, writers>>

\* messageBytes, err := tcp.ToBytes()
Send ==
    /\ phase = "sealed"
    /\ wire' = ToBytes(tcp.m).data
    /\ phase' = "encoded"
    /\ UNCHANGED <<files, engines, rnd, calls, faulty, lastOp, tcp, stored,
                   threads, issued, writers>>

\* storedMessage, err := MessageFromBytes(storedData)
Receive ==
    /\ phase = "encoded"
    /\ stored' = MessageFromBytes(wire)
    /\ phase' = "parsed"
    /\ UNCHANGED <<files, engines, rnd, calls, faulty, lastOp, tcp, wire,
                   threads, issued, writers>>

\* decrypted, err := engines[s].Decrypt(storedMessage, k)
DecryptStored(s, k) ==
    /\ phase = "parsed"
    /\ stored.err = NoError
    /\ engines[s].ready
    /\ calls < MaxCalls
    /\ LET r == Decrypt(engines[s], stored.m, k)
       IN  /\ engines' = [engines EXCEPT ![s] = r.engine]
           /\ lastOp' = [NoOp EXCEPT !.op = "Decrypt", !.engine = s, !.key = k,
                                     !.out = r.out, !.err = r.err]
    /\ calls' = calls + 1
    /\ UNCHANGED <<files, rnd, faulty, tcp, wire, stored, phase, threads, issued, writers>>

\* two engines with distinct identifiers (TestPublicKeyEncryption), reliable key folder
Next ==
    \/ \E s \in Peers : InitEngine(s, {})
    \/ \E s \in Peers, p \in Plaintexts : EncryptSymmetric(s, p)
    \/ \E s \in Peers, p \in Plaintexts : \E k \in PeerKeys : EncryptAsymmetric(s, p, k)
    \/ Send
    \/ Receive
    \/ \E s \in Peers : \E k \in PeerKeys : DecryptStored(s, k)

Spec == Init /\ [][Next]_vars

\* two engines constructed with the same identifier (TestSecretKeyEncryption)
NextTwins ==
    \/ \E s \in Twins : InitEngine(s, {})
    \/ \E s \in Twins, p \in Plaintexts : EncryptSymmetric(s, p)
    \/ \E s \in Twins, p \in Plaintexts : \E k \in PeerKeys : EncryptAsymmetric(s, p, k)
    \/ Send
    \/ Receive
    \/ \E s \in Twins : \E k \in PeerKeys : DecryptStored(s, k)

SpecTwins == Init /\ [][NextTwins]_vars

\* the key folder with system calls that may fail (two engines of one identifier)
NextStore ==
    \E s \in Twins : \E F \in FaultSets(sanitizeIdentifier(Identifier[s])) : InitEngine(s, F)

SpecStore == Init /\ [][NextStore]_vars

-----------------------------------------------------------------------------
(* Claims on the engine and the key folder                                 *)

PublicFile(s) == FileName("public", sanitizeIdentifier(Identifier[s]))
PrivateFile(s) == FileName("private", sanitizeIdentifier(Identifier[s]))

\* C1: whenever an engine's cached flag is set, its cached shared key is the one
\* computed for its current peer public key and its private key.
C1_CacheFollowsPeerKey ==
    \A s \in Slots :
        (engines[s].ready /\ engines[s].preSharedInitialized)
            => engines[s].sharedKey = Precompute(engines[s].peerPublicKey, engines[s].privateKey)

\* C4: a message A sealed for B's public key, encoded and decoded, is opened by
\* B.Decrypt with A's public key: no error, and the plaintext A sealed.
C4_AsymmetricRoundTrip ==
    (/\ lastOp.op = "Decrypt"
     /\ stored.m.version = publicKeyVersion
     /\ tcp.from \in Slots
     /\ engines[tcp.from].context # engines[lastOp.engine].context
     /\ tcp.peer = PublicKey(engines[lastOp.engine])
     /\ lastOp.key = PublicKey(engines[tcp.from]))
        => (lastOp.err = NoError /\ lastOp.out = tcp.plain)

\* C5: a symmetric message, encoded and decoded, is opened by Decrypt(m, nil) on any
\* engine constructed with the sender's identifier: no error, and the plaintext sealed.
C5_SymmetricRoundTrip ==
    (/\ lastOp.op = "Decrypt"
     /\ tcp.from \in Slots
     /\ tcp.m.version = secretKeyVersion
     /\ lastOp.key = NilSlice
     /\ engines[lastOp.engine].context = engines[tcp.from].context)
        => (lastOp.err = NoError /\ lastOp.out = tcp.plain)

C5_Witness ==
    /\ lastOp.op = "Decrypt"
    /\ tcp.from \in Slots
    /\ tcp.m.version = secretKeyVersion
    /\ lastOp.key = NilSlice
    /\ lastOp.engine # tcp.from
    /\ engines[lastOp.engine].context = engines[tcp.from].context
    /\ lastOp.out = tcp.plain

AllKeysPersisted(fs, c) == \A k \in Kinds : fs[FileName(k, c)].exists

C7_KeyPairAllOrNothing ==
    [][\A s \in Slots :
        (/\ lastOp'.op = "Init" /\ lastOp'.engine = s /\ lastOp'.kpRan
         /\ files[PublicFile(s)].exists # files[PrivateFile(s)].exists)
          => (/\ lastOp'.kpErr # NoError
              /\ ~engines'[s].ready
              /\ files'[PublicFile(s)] = files[PublicFile(s)]
              /\ files'[PrivateFile(s)] = files[PrivateFile(s)])
      ]_vars

\* C8: after keypair loading on a folder holding neither blob, the public key blob
\* exists only if the private key blob exists, unless the private write and the
\* compensating delete both failed.
C8_PublicNeverWithoutPrivate ==
    [][\A s \in Slots :
        (/\ lastOp'.op = "Init" /\ lastOp'.engine = s /\ lastOp'.kpRan
         /\ ~files[PublicFile(s)].exists /\ ~files[PrivateFile(s)].exists)
          => (files'[PublicFile(s)].exists
                => (files'[PrivateFile(s)].exists \/ lastOp'.logged))
      ]_vars

-----------------------------------------------------------------------------
(* SpecCodec: ToBytes, MessageFromBytes and Fuzz on enumerated inputs      *)

MaxRawLen == 39
MaxCipherLen == 2

RawPatterns == {"zero", "high", "ramp"}

RawInput(n, pat) ==
    [i \in 1..n |-> IF pat = "zero" THEN 0 ELSE IF pat = "high" THEN 127 ELSE i % 128]

RawInputs == {NilSlice} \cup {RawInput(n, pat) : n \in 0..MaxRawLen, pat \in RawPatterns}

RECURSIVE ByteStrings(_)
ByteStrings(n) ==
    IF n = 0 THEN {<<>>}
    ELSE LET shorter == ByteStrings(n - 1)
         IN  shorter \cup {Append(b, x) : b \in {c \in shorter : Len(c) = n - 1}, x \in {0, 255}}

TestNonces == {ZeroNonce, [i \in 1..nonceSize |-> i], Fill(nonceSize, 255)}

TestMessages ==
    {[length |-> l, version |-> v, nonce |-> n, message |-> c] :
        l \in {U64(0), U64(minimumDataSize + 1), <<65535, 65535, 65535, 65535>>},
        v \in {secretKeyVersion, publicKeyVersion, 2},
        n \in TestNonces,
        c \in {NilSlice} \cup ByteStrings(MaxCipherLen)}

InitCodec ==
    /\ files = [n \in Names |-> NoFile]
    /\ engines = [s \in Slots |-> NoEngine]
    /\ rnd = [c \in Contexts |-> 0]
    /\ calls = 0
    /\ faulty = 0
    /\ lastOp = NoOp
    /\ stored = NoStored
    /\ ConcIdle
    /\ \/ /\ phase = "sealed"
          /\ \E m \in TestMessages : tcp = [NoTcp EXCEPT !.m = m]
          /\ wire = NilSlice
       \/ /\ phase = "encoded"
          /\ tcp = NoTcp
          /\ wire \in RawInputs

\* Fuzz(data)
FuzzRun ==
    /\ phase = "encoded"
    /\ lastOp' = [NoOp EXCEPT !.op = "Fuzz", !.out = <<Fuzz(wire)>>]
    /\ phase' = "fuzzed"
    /\ UNCHANGED <<files, engines, rnd, calls, faulty, tcp, wire, stored,
                   threads, issued, writers>>

NextCodec == Send \/ Receive \/ FuzzRun

SpecCodec == InitCodec /\ [][NextCodec]_vars

\* C9: a Message with version 0 or 1 and at least one ciphertext byte survives
\* ToBytes followed by MessageFromBytes: no error, same version, nonce, ciphertext
\* and length field.
C9_CodecRoundTrip ==
    (/\ phase = "parsed"
     /\ tcp.m.version \in {secretKeyVersion, publicKeyVersion}
     /\ GoLen(tcp.m.message) >= 1)
        => (/\ stored.err = NoError
            /\ stored.m.version = tcp.m.version
            /\ stored.m.nonce = tcp.m.nonce
            /\ stored.m.message = tcp.m.message
            /\ stored.m.length = tcp.m.length)

C9_Witness ==
    /\ phase = "parsed"
    /\ tcp.m.version = publicKeyVersion
    /\ tcp.m.message = <<255, 0>>
    /\ tcp.m.length = <<65535, 65535, 65535, 65535>>
    /\ stored.m = tcp.m

-----------------------------------------------------------------------------
(* SpecWrite: concurrent WriteFile calls creating one key file             *)

NumWriters == 3

Writers == 1..NumWriters

\* the blob the writers race to create, and what each of them writes
TargetFile == FileName("salt", sanitizeIdentifier(Identifier[1]))

WriterData(w) == KeyBytes(RandomDraw(sanitizeIdentifier(Identifier[1]), w))

WriterStart == [pc |-> "check", err |-> NoError, late |-> FALSE]

InitWrite ==
    /\ files = [n \in Names |-> NoFile]
    /\ engines = [s \in Slots |-> NoEngine]
    /\ rnd = [c \in Contexts |-> 0]
    /\ calls = 0
    /\ faulty = 0
    /\ lastOp = NoOp
    /\ tcp = NoTcp
    /\ wire = NilSlice
    /\ stored = NoStored
    /\ phase = "idle"
    /\ threads = <<>>
    /\ issued = <<>>
    /\ writers = [w \in Writers |-> WriterStart]

WriteUnchanged == UNCHANGED <<engines, rnd, calls, faulty, lastOp, tcp, wire, stored, phase,
                              threads, issued>>

\* if FileExists(filename) { return os.ErrExist }
WriteCheck(w) ==
    /\ writers[w].pc = "check"
    /\ writers' = [writers EXCEPT ![w] =
                      IF FileExists(files, TargetFile)
                      THEN [@ EXCEPT !.pc = "done", !.err = ErrExist]
                      ELSE [@ EXCEPT !.pc = "open"]]
    /\ UNCHANGED files
    /\ WriteUnchanged

\* os.OpenFile(filename, os.O_WRONLY|os.O_CREATE, 0400): creates the file when it is
\* absent; a file that exists by now is opened as it is (no O_EXCL), which the 0400
\* mode denies to an unprivileged process and allows to a privileged one.
WriteOpen(w, outcome) ==
    /\ writers[w].pc = "open"
    /\ IF FileExists(files, TargetFile)
       THEN /\ outcome \in {"opened", "denied"}
            /\ writers' = [writers EXCEPT ![w] =
                              IF outcome = "opened"
                              THEN [@ EXCEPT !.pc = "write", !.late = TRUE]
                              ELSE [@ EXCEPT !.pc = "done", !.late = TRUE,
                                             !.err = "permission denied"]]
            /\ UNCHANGED files
       ELSE /\ outcome \in {"opened", "failed"}
            /\ writers' = [writers EXCEPT ![w] =
                              IF outcome = "opened"
                              THEN [@ EXCEPT !.pc = "write"]
                              ELSE [@ EXCEPT !.pc = "done", !.err = "open error"]]
            /\ files' = IF outcome = "opened"
                        THEN [files EXCEPT ![TargetFile] = [exists |-> TRUE, data |-> <<>>]]
                        ELSE files
    /\ WriteUnchanged

\* file.Write(data): at offset 0 of the open file, over whatever it holds
WriteData(w, outcome) ==
    /\ writers[w].pc = "write"
    /\ outcome \in {"written", "failed"}
    /\ LET old == files[TargetFile].data
           new == WriterData(w)
       IN  files' = IF outcome = "written"
                    THEN [files EXCEPT ![TargetFile].data =
                             [i \in 1..(IF Len(old) > Len(new) THEN Len(old) ELSE Len(new)) |->
                                 IF i <= Len(new) THEN new[i] ELSE old[i]]]
                    ELSE files
    /\ writers' = [writers EXCEPT ![w] =
                      [@ EXCEPT !.pc = "done",
                                !.err = IF outcome = "written" THEN NoError ELSE "write error"]]
    /\ WriteUnchanged

NextWrite ==
    \/ \E w \in Writers : WriteCheck(w)
    \/ \E w \in Writers : \E outcome \in {"opened", "denied", "failed"} : WriteOpen(w, outcome)
    \/ \E w \in Writers : \E outcome \in {"written", "failed"} : WriteData(w, outcome)

SpecWrite == InitWrite /\ [][NextWrite]_vars

\* C3: of the writers racing to create one blob at most one succeeds, and a writer
\* whose open came after another writer had created the file ends with the
\* already-exists error.
C3_CreateIfAbsent ==
    /\ Cardinality({w \in Writers : writers[w].pc = "done" /\ writers[w].err = NoError}) <= 1
    /\ \A w \in Writers :
          (writers[w].pc = "done" /\ writers[w].late) => writers[w].err = ErrExist

-----------------------------------------------------------------------------
(* SpecEnc: Encrypt calls of several threads interleaved on one engine     *)

NumThreads == 2
MaxIssued == 3

Threads == 1..NumThreads

ThreadIdle == [pc |-> "idle", kind |-> "none", plain |-> NilSlice, counter |-> 0,
               nonce |-> ZeroNonce]

\* the engine of slot 1 as InitCryptoEngine leaves it on an empty key folder
FirstInit ==
    InitCryptoEngine(Identifier[1], [n \in Names |-> NoFile], [c \in Contexts |-> 0], {})

InitEnc ==
    /\ files = FirstInit.fs
    /\ engines = [s \in Slots |-> IF s = 1 THEN FirstInit.ce ELSE NoEngine]
    /\ rnd = [c \in Contexts |-> IF c = FirstInit.ce.context THEN FirstInit.rnd ELSE 0]
    /\ calls = 0
    /\ faulty = 0
    /\ lastOp = NoOp
    /\ tcp = NoTcp
    /\ wire = NilSlice
    /\ stored = NoStored
    /\ phase = "idle"
    /\ threads = [t \in Threads |-> ThreadIdle]
    /\ issued = <<>>
    /\ writers = <<>>

EncUnchanged == UNCHANGED <<files, rnd, calls, faulty, tcp, wire, stored, phase, writers>>

InFlight == Cardinality({t \in Threads : threads[t].pc # "idle"})

\* NewEncryptedMessage up to the nonce derivation: the checks of the message
BeginSymmetric(t, p) ==
    /\ threads[t].pc = "idle"
    /\ Len(issued) + InFlight < MaxIssued
    /\ LET failed == p = NilSlice \/ Len(p) = 0
       IN  /\ threads' = [threads EXCEPT ![t] =
                            IF failed THEN ThreadIdle
                            ELSE [ThreadIdle EXCEPT !.pc = "derive", !.kind = "symmetric",
                                                    !.plain = p]]
           /\ lastOp' = [NoOp EXCEPT !.op = "EncryptSymmetric", !.engine = 1, !.plain = p,
                                     !.err = IF failed THEN messageEmpty ELSE NoError]
    /\ UNCHANGED <<engines, issued>>
    /\ EncUnchanged

\* NewEncryptedMessageWithPubKey up to the nonce derivation: the checks of the message
\* and of the key, and the assignment of engine.peerPublicKey
BeginAsymmetric(t, p, k) ==
    /\ threads[t].pc = "idle"
    /\ Len(issued) + InFlight < MaxIssued
    /\ LET emptyMsg == p = NilSlice \/ Len(p) = 0
           badKey == k = NilSlice \/ Len(k) # keySize \/ k = emptyKey
           failed == emptyMsg \/ badKey
       IN  /\ threads' = [threads EXCEPT ![t] =
                            IF failed THEN ThreadIdle
                            ELSE [ThreadIdle EXCEPT !.pc = "derive", !.kind = "asymmetric",
                                                    !.plain = p]]
           /\ engines' = IF failed THEN engines
                         ELSE [engines EXCEPT ![1].peerPublicKey = k]
           /\ lastOp' = [NoOp EXCEPT !.op = "EncryptAsymmetric", !.engine = 1, !.plain = p,
                                     !.key = k,
                                     !.err = IF emptyMsg THEN messageEmpty
                                             ELSE IF badKey THEN KeyNotValidError ELSE NoError]
    /\ UNCHANGED issued
    /\ EncUnchanged

\* nonce, err := deriveNonce(...): the call claims its counter value and derives
DeriveStep(t) ==
    /\ threads[t].pc = "derive"
    /\ LET c == ClaimCounter(engines[1])
           n == deriveNonce(c.engine.nonceKey, c.engine.salt, c.engine.context, c.counter)
       IN  /\ engines' = [engines EXCEPT ![1] = c.engine]
           /\ threads' = [threads EXCEPT ![t].pc = "seal", ![t].counter = c.counter,
                                         ![t].nonce = n.nonce]
    /\ UNCHANGED <<lastOp, issued>>
    /\ EncUnchanged

\* the rest of the call: Precompute on the asymmetric path when the flag is unset,
\* Seal, and the Message returned
SealStep(t) ==
    /\ threads[t].pc = "seal"
    /\ LET e == engines[1]
           e2 == IF threads[t].kind = "asymmetric" /\ ~e.preSharedInitialized
                 THEN [e EXCEPT !.sharedKey = Precompute(e.peerPublicKey, e.privateKey),
                                !.preSharedInitialized = TRUE]
                 ELSE e
           data == IF threads[t].kind = "asymmetric"
                   THEN BoxSeal(threads[t].plain, threads[t].nonce, e2.peerPublicKey, e2.privateKey)
                   ELSE SecretboxSeal(threads[t].plain, threads[t].nonce, e2.secretKey)
           m == [version |-> IF threads[t].kind = "asymmetric" THEN publicKeyVersion
                             ELSE secretKeyVersion,
                 nonce |-> threads[t].nonce,
                 message |-> data,
                 length |-> IF threads[t].kind = "asymmetric" THEN U64(Len(data))
                            ELSE U64(Len(data) + nonceSize + 4 + 4)]
       IN  /\ engines' = [engines EXCEPT ![1] = e2]
           /\ issued' = Append(issued, [thread |-> t, counter |-> threads[t].counter, m |-> m])
    /\ threads' = [threads EXCEPT ![t] = ThreadIdle]
    /\ UNCHANGED lastOp
    /\ EncUnchanged

NextEnc ==
    \/ \E t \in Threads, p \in {<<>>, <<7>>} : BeginSymmetric(t, p)
    \/ \E t \in Threads, p \in {<<>>, <<7>>}, k \in {OtherKey, emptyKey} : BeginAsymmetric(t, p, k)
    \/ \E t \in Threads : DeriveStep(t)
    \/ \E t \in Threads : SealStep(t)

SpecEnc == InitEnc /\ [][NextEnc]_vars

-----------------------------------------------------------------------------
(* SpecErr: one engine called with invalid plaintexts and peer keys        *)

Solo == {1}

ErrPlaintexts == {NilSlice, <<>>, <<7>>}

ErrKeys == {NilSlice, ShortKey, LongKey, emptyKey, OtherKey}

NextErr ==
    \/ \E s \in Solo : InitEngine(s, {})
    \/ \E s \in Solo, p \in ErrPlaintexts : EncryptSymmetric(s, p)
    \/ \E s \in Solo, p \in ErrPlaintexts, k \in ErrKeys : EncryptAsymmetric(s, p, k)
    \/ Send
    \/ Receive
    \/ \E s \in Solo, k \in ErrKeys : DecryptStored(s, k)

SpecErr == Init /\ [][NextErr]_vars

EmptyPlaintext(p) == p = NilSlice \/ Len(p) = 0

\* C11: NewEncryptedMessageWithPubKey with a non-empty message and a peer key that is
\* nil, not 32 bytes long or all zeros fails with KeyNotValidError, hands out no
\* message, and leaves the engine (peerPublicKey, sharedKey, flag) as it was.
C11_InvalidPeerKeyRejected ==
    [][\A s \in Slots :
        (/\ lastOp'.op = "EncryptAsymmetric" /\ lastOp'.engine = s /\ calls' = calls + 1
         /\ ~EmptyPlaintext(lastOp'.plain)
         /\ (lastOp'.key = NilSlice \/ Len(lastOp'.key) # keySize \/ lastOp'.key = emptyKey))
          => (/\ lastOp'.err = KeyNotValidError
              /\ NewEncryptedMessageWithPubKey(engines[s], lastOp'.plain, lastOp'.key).m
                     = EmptyMessage
              /\ tcp' = tcp
              /\ engines'[s] = engines[s])
      ]_vars

\* an all-zero key rejected by an engine whose shared key is cached
C11_Witness ==
    /\ lastOp.op = "EncryptAsymmetric"
    /\ lastOp.plain = <<7>>
    /\ lastOp.key = emptyKey
    /\ lastOp.err = KeyNotValidError
    /\ engines[1].preSharedInitialized
    /\ engines[1].peerPublicKey = OtherKey

\* C12: Decrypt of a message of the asymmetric version with a peer key that is nil,
\* shorter than 32 bytes or longer than 32 bytes fails with KeyNotValidError and
\* leaves the shared key and the flag as they were.
C12_DecryptKeyExactly32 ==
    [][\A s \in Slots :
        (/\ lastOp'.op = "Decrypt" /\ lastOp'.engine = s /\ calls' = calls + 1
         /\ stored.m.version = publicKeyVersion
         /\ (lastOp'.key = NilSlice \/ Len(lastOp'.key) # keySize))
          => (/\ lastOp'.err = KeyNotValidError
              /\ engines'[s].sharedKey = engines[s].sharedKey
              /\ engines'[s].preSharedInitialized = engines[s].preSharedInitialized)
      ]_vars

\* C13: NewEncryptedMessage and NewEncryptedMessageWithPubKey with a nil or
\* zero-length message fail with messageEmpty, hand out no message, and leave the
\* engine (peer key, shared key, flag, counter) as it was.
C13_EmptyPlaintextRejected ==
    [][\A s \in Slots :
        (/\ lastOp'.op \in {"EncryptSymmetric", "EncryptAsymmetric"}
         /\ lastOp'.engine = s /\ calls' = calls + 1
         /\ EmptyPlaintext(lastOp'.plain))
          => (/\ lastOp'.err = messageEmpty
              /\ tcp' = tcp /\ wire' = wire /\ phase' = phase
              /\ engines'[s] = engines[s])
      ]_vars

\* a zero-length message refused by an engine that has sealed before
C13_Witness ==
    /\ lastOp.op = "EncryptSymmetric"
    /\ lastOp.plain = <<>>
    /\ lastOp.err = messageEmpty
    /\ engines[1].counter > 0
    /\ engines[1].preSharedInitialized

-----------------------------------------------------------------------------
(* SpecTamper: one bit of the bytes on the wire changes in transport       *)

FlipBit(b, k) == IF (b \div (2 ^ k)) % 2 = 1 THEN b - 2 ^ k ELSE b + 2 ^ k

\* bit k of byte i (1-based) of the encoded message is flipped, once
Tamper(i, k) ==
    /\ phase = "encoded"
    /\ wire = ToBytes(tcp.m).data
    /\ wire' = [wire EXCEPT ![i] = FlipBit(wire[i], k)]
    /\ UNCHANGED <<files, engines, rnd, calls, faulty, lastOp, tcp, stored, phase,
                   threads, issued, writers>>

NextTamper ==
    \/ \E s \in Solo : InitEngine(s, {})
    \/ \E s \in Solo, p \in Plaintexts : EncryptSymmetric(s, p)
    \/ Send
    \/ \E i \in 1..GoLen(wire), k \in 0..7 : Tamper(i, k)
    \/ Receive
    \/ \E s \in Solo, k \in {NilSlice, OtherKey} : DecryptStored(s, k)

SpecTamper == Init /\ [][NextTamper]_vars

\* the Decrypt just made was of a symmetric message whose bytes changed on the wire
DecryptedTampered ==
    /\ lastOp.op = "Decrypt"
    /\ phase = "parsed"
    /\ tcp.m.version = secretKeyVersion
    /\ wire # ToBytes(tcp.m).data
    /\ stored = MessageFromBytes(wire)

\* offset (0-based) of the one byte in which the wire differs from the encoded message
TamperedOffset == (CHOOSE i \in 1..Len(wire) : wire[i] # ToBytes(tcp.m).data[i]) - 1

\* C14 (as stated): after any single bit of an encoded symmetric message is changed,
\* Decrypt of the decoded message fails with MessageDecryptionError and returns no
\* plaintext.
C14_AnyBitFlipDetected ==
    DecryptedTampered => (lastOp.err = MessageDecryptionError /\ lastOp.out = NilSlice)

\* C14 (amended): after any single bit of the nonce or of the ciphertext bytes of an
\* encoded symmetric message is changed, Decrypt of the decoded message fails with
\* MessageDecryptionError and returns no plaintext.
C14_NonceOrCiphertextFlipDetected ==
    (DecryptedTampered /\ TamperedOffset >= 8 + 4)
        => (lastOp.err = MessageDecryptionError /\ lastOp.out = NilSlice)

\* a changed bit in the masked plaintext bytes, past the authenticator, refused
C14_Witness ==
    /\ DecryptedTampered
    /\ TamperedOffset >= minimumDataSize + Overhead
    /\ lastOp.key = NilSlice
    /\ lastOp.err = MessageDecryptionError

-----------------------------------------------------------------------------
(* Claims on the Message an Encrypt call returns                           *)

\* C15: the length field of every Message returned by NewEncryptedMessage or
\* NewEncryptedMessageWithPubKey is 8 + 4 + 24 + len(ciphertext), the number of bytes
\* ToBytes writes for it.
C15_LengthIsWireSize ==
    tcp.from \in Slots =>
        /\ tcp.m.length = U64(8 + 4 + nonceSize + Len(tcp.m.message))
        /\ tcp.m.length = U64(Len(ToBytes(tcp.m).data))

-----------------------------------------------------------------------------
(* SpecFiles: WriteFile and ReadFile called directly, one call at a time   *)

MaxWrites == 4

TestFiles == {FileName(k, sanitizeIdentifier(Identifier[1])) : k \in {"salt", "secret"}}

TestData == {<<1>>, <<2, 3>>}

InitFiles == Init

FilesUnchanged ==
    UNCHANGED <<engines, rnd, calls, faulty, tcp, wire, stored, phase, threads, writers>>

\* err := WriteFile(n, d); issued keeps the calls made and their results
FileWrite(n, d) ==
    /\ Len(issued) < MaxWrites
    /\ LET r == WriteFile(files, n, d, {})
       IN  /\ files' = r.fs
           /\ issued' = Append(issued, [file |-> n, data |-> d, err |-> r.err])
           /\ lastOp' = [op |-> "WriteFile", file |-> n, data |-> d, err |-> r.err]
    /\ FilesUnchanged

\* storedData, err := ReadFile(n)
FileRead(n) ==
    /\ LET r == ReadFile(files, n, {})
       IN  lastOp' = [op |-> "ReadFile", file |-> n, out |-> r.data, err |-> r.err]
    /\ UNCHANGED <<files, issued>>
    /\ FilesUnchanged

NextFiles ==
    \/ \E n \in TestFiles, d \in TestData : FileWrite(n, d)
    \/ \E n \in TestFiles : FileRead(n)

SpecFiles == InitFiles /\ [][NextFiles]_vars

\* the positions in issued of the WriteFile calls on n
WritesOf(n) == {i \in 1..Len(issued) : issued[i].file = n}

\* C16: of the WriteFile calls made one after another on a name of an empty folder,
\* the first succeeds and every later one fails with os.ErrExist; the file holds,
\* and ReadFile returns, the bytes of the first.
C16_CreateAtMostOnce ==
    \A n \in TestFiles :
        /\ files[n].exists <=> WritesOf(n) # {}
        /\ \A i \in WritesOf(n) :
              IF \E j \in WritesOf(n) : j < i
              THEN issued[i].err = ErrExist
              ELSE /\ issued[i].err = NoError
                   /\ files[n].data = issued[i].data
                   /\ (lastOp.op = "ReadFile" /\ lastOp.file = n)
                          => (lastOp.err = NoError /\ lastOp.out = issued[i].data)

\* a name written twice with different bytes and then read
C16_Witness ==
    \E n \in TestFiles : \E i, j \in WritesOf(n) :
        /\ i < j
        /\ issued[i].data # issued[j].data
        /\ issued[j].err = ErrExist
        /\ lastOp.op = "ReadFile" /\ lastOp.file = n
        /\ lastOp.out = issued[i].data

-----------------------------------------------------------------------------
(* SpecView: a caller that keeps and writes the slice PublicKey returns    *)

\* the offsets and byte values a caller writes through the slice
ViewOffsets == {0, keySize - 1}

ViewBytes == {0, 255}

\* view := engines[s].PublicKey(): a slice over the array engine.publicKey
GetPublicKey(s) ==
    /\ engines[s].ready
    /\ calls < MaxCalls
    /\ lastOp' = [NoOp EXCEPT !.op = "PublicKey", !.engine = s, !.out = PublicKey(engines[s])]
    /\ calls' = calls + 1
    /\ UNCHANGED <<files, engines, rnd, faulty, tcp, wire, stored, phase,
                   threads, issued, writers>>

\* view[i] = b by the caller that holds the slice: the slice shares the array, so the
\* store lands in engine.publicKey
CallerWrite(s, i, b) ==
    /\ lastOp.op \in {"PublicKey", "CallerWrite"}
    /\ lastOp.engine = s
    /\ engines[s].publicKey[i + 1] # b
    /\ engines' = [engines EXCEPT ![s].publicKey[i + 1] = b]
    /\ lastOp' = [lastOp EXCEPT !.op = "CallerWrite", !.out = engines'[s].publicKey]
    /\ UNCHANGED <<files, rnd, calls, faulty, tcp, wire, stored, phase,
                   threads, issued, writers>>

NextView ==
    \/ \E s \in Solo : InitEngine(s, {})
    \/ \E s \in Solo : GetPublicKey(s)
    \/ \E s \in Solo, i \in ViewOffsets, b \in ViewBytes : CallerWrite(s, i, b)
    \/ \E s \in Solo, p \in Plaintexts : EncryptSymmetric(s, p)
    \/ \E s \in Solo, p \in Plaintexts : EncryptAsymmetric(s, p, OtherKey)
    \/ Send
    \/ Receive
    \/ \E s \in Solo, k \in {NilSlice, OtherKey} : DecryptStored(s, k)

SpecView == Init /\ [][NextView]_vars

\* C17: once an engine is constructed, no call of NewEncryptedMessage,
\* NewEncryptedMessageWithPubKey, Decrypt or PublicKey, and nothing the caller does
\* with the value PublicKey returned, changes its salt, secretKey, nonceKey, publicKey
\* or privateKey.
C17_KeyMaterialFrame ==
    [][\A s \in Slots :
        engines[s].ready =>
            /\ engines'[s].salt = engines[s].salt
            /\ engines'[s].secretKey = engines[s].secretKey
            /\ engines'[s].nonceKey = engines[s].nonceKey
            /\ engines'[s].publicKey = engines[s].publicKey
            /\ engines'[s].privateKey = engines[s].privateKey
      ]_vars

-----------------------------------------------------------------------------
(* Claims on reading key blobs and on the keypair's failure report         *)

\* a blob of context c exists and holds fewer than 32 bytes
ShortBlob(fs, c) == \E k \in Kinds : fs[FileName(k, c)].exists /\ Len(fs[FileName(k, c)].data) < 32

\* the runtime panic of a slice expression out of range, which ends the program
Aborted == "panic"

\* C18: loading a key blob that exists and holds fewer than 32 bytes, or cannot be
\* read, returns an error to the caller: InitCryptoEngine hands out no engine and the
\* program is not aborted.
C18_ShortBlobIsReadError ==
    [][\A s \in Slots :
        (lastOp'.op = "Init" /\ lastOp'.engine = s /\ lastOp' # lastOp)
          => (/\ lastOp'.err # Aborted
              /\ ShortBlob(files, sanitizeIdentifier(Identifier[s]))
                    => (lastOp'.err # NoError /\ ~engines'[s].ready))
      ]_vars

-----------------------------------------------------------------------------
(* SpecNonce: deriveNonce over the counter values 0, 1, 2, ... in turn     *)

MaxCounter == 1024

\* the engine whose nonceKey, salt and context the derivations use
InitNonce ==
    \E s \in Peers :
        LET r == InitCryptoEngine(Identifier[s], [n \in Names |-> NoFile],
                                  [c \in Contexts |-> 0], {})
        IN  /\ files = r.fs
            /\ engines = [t \in Slots |-> IF t = 1 THEN r.ce ELSE NoEngine]
            /\ rnd = [c \in Contexts |-> IF c = r.ce.context THEN r.rnd ELSE 0]
            /\ calls = 0
            /\ faulty = 0
            /\ lastOp = NoOp
            /\ tcp = NoTcp
            /\ wire = NilSlice
            /\ stored = NoStored
            /\ phase = "idle"
            /\ ConcIdle

\* derivedKey, err = deriveNonce(engine.nonceKey, engine.salt, engine.context, uint64(i))
\* for i = calls; issued keeps the nonces derived so far
DeriveNext ==
    /\ calls < MaxCounter
    /\ LET e == engines[1]
           d == deriveNonce(e.nonceKey, e.salt, e.context, calls)
       IN  issued' = Append(issued, [counter |-> calls, nonce |-> d.nonce, err |-> d.err])
    /\ calls' = calls + 1
    /\ UNCHANGED <<files, engines, rnd, faulty, lastOp, tcp, wire, stored, phase,
                   threads, writers>>

NextNonce == DeriveNext

SpecNonce == InitNonce /\ [][NextNonce]_vars

\* C19: for a fixed nonceKey, salt and context, the derivation for each of the
\* counter values 0 .. N-1 succeeds and no nonce repeats an earlier one.
C19_NoncesDistinctOverCounters ==
    issued # <<>> =>
        LET last == issued[Len(issued)]
        IN  /\ last.err = NoError
            /\ last.counter = Len(issued) - 1
            /\ \A i \in 1..(Len(issued) - 1) : issued[i].nonce # last.nonce

\* counters of one, two and three decimal digits have been derived
C19_Witness ==
    /\ Len(issued) > 100
    /\ issued[10].counter = 9
    /\ issued[101].counter = 100
    /\ issued[10].nonce # issued[101].nonce

\* the errors WriteFile returns when os.OpenFile or file.Write fails
WriteErrors == {"open error", "write error"}

\* C20: when the private key write and then the removal of the public key both fail
\* (the case in which loadKeyPairs prints its log line), the error returned to the
\* caller is the error of the private key write, not the error of the removal.
C20_DoubleFailureReportsWriteError ==
    (lastOp.op = "Init" /\ lastOp.logged)
        => (lastOp.kpErr \in WriteErrors /\ lastOp.err \in WriteErrors)

-----------------------------------------------------------------------------
(* Claims on the length field as MessageFromBytes reads it                 *)

\* the 64-bit big-endian value of bytes 0..7 of data, as four 16-bit limbs
LengthOnWire(data) == [i \in 1..4 |-> data[2 * i - 1] * 256 + data[2 * i]]

\* C21: for every input of at least 37 bytes MessageFromBytes succeeds, the decoded
\* ciphertext is the bytes from offset 36 to the end and the decoded length is the
\* big-endian value of bytes 0..7, whether or not it is the number of bytes received.
C21_LengthNotCrossValidated ==
    (phase = "parsed" /\ wire # NilSlice /\ Len(wire) >= minimumDataSize + 1)
        => (/\ stored.err = NoError
            /\ stored.m.message = SubSeq(wire, minimumDataSize + 1, Len(wire))
            /\ stored.m.length = LengthOnWire(wire))

\* an input accepted although its length field is not its byte count
C21_Witness ==
    /\ phase = "parsed"
    /\ wire # NilSlice
    /\ Len(wire) = minimumDataSize + 2
    /\ stored.err = NoError
    /\ stored.m.length = <<65535, 65535, 65535, 65535>>
    /\ stored.m.message = <<255, 0>>

-----------------------------------------------------------------------------
(* SpecSinglePeer: two engines, each used with the other's public key only *)

\* the engine whose public key engine s is used with (TestPublicKeyEncryption)
PeerOf(s) == IF s = 1 THEN 2 ELSE 1

NextSinglePeer ==
    \/ \E s \in Peers : InitEngine(s, {})
    \/ \E s \in Peers, p \in Plaintexts : EncryptSymmetric(s, p)
    \/ \E s \in Peers, p \in Plaintexts :
          /\ engines[PeerOf(s)].ready
          /\ EncryptAsymmetric(s, p, PublicKey(engines[PeerOf(s)]))
    \/ Send
    \/ Receive
    \/ \E s \in Peers :
          /\ engines[PeerOf(s)].ready
          /\ DecryptStored(s, IF stored.m.version = secretKeyVersion THEN NilSlice
                              ELSE PublicKey(engines[PeerOf(s)]))

SpecSinglePeer == Init /\ [][NextSinglePeer]_vars

\* C22: when every asymmetric call of an engine is made with one valid peer key K,
\* then whenever its flag is set, peerPublicKey is K and sharedKey is
\* Precompute(K, privateKey); and once the flag is set, the flag stays set and the
\* shared key is not computed again.
C22_SinglePeerCache ==
    [][\A s \in Peers :
        engines'[s].preSharedInitialized =>
            /\ engines'[PeerOf(s)].ready
            /\ engines'[s].peerPublicKey = PublicKey(engines'[PeerOf(s)])
            /\ engines'[s].sharedKey
                  = Precompute(PublicKey(engines'[PeerOf(s)]), engines'[s].privateKey)
            /\ engines[s].preSharedInitialized
                  => engines'[s].sharedKey = engines[s].sharedKey
      ]_vars

\* both caches filled, one by an Encrypt and one by the Decrypt of that message
C22_Witness ==
    /\ engines[1].preSharedInitialized /\ engines[2].preSharedInitialized
    /\ lastOp.op = "Decrypt"
    /\ stored.m.version = publicKeyVersion
    /\ lastOp.engine # tcp.from
    /\ lastOp.err = NoError
    /\ lastOp.out = tcp.plain

-----------------------------------------------------------------------------
(* Claims on what an asymmetric message is sealed for                      *)

\* private scalars of parties that hold neither end of a message
OutsiderScalars == {3, 5, 9}

\* box.Open by the holder of privateKey, for a message from the holder of senderPublic
OpenAs(m, senderPublic, privateKey) ==
    OpenAfterPrecomputation(m.message, m.nonce, Precompute(senderPublic, privateKey))

\* C23: a message returned by NewEncryptedMessageWithPubKey(p, K), K the public key
\* of an engine, is opened to p by that engine's private key with the shared key
\* computed for the sender, whatever the sender's cache holds; a private key of
\* neither end does not open it.
C23_SealedForCurrentPeerKey ==
    \A t \in Slots :
        (/\ tcp.from \in Slots
         /\ tcp.m.version = publicKeyVersion
         /\ engines[t].ready
         /\ tcp.peer = PublicKey(engines[t]))
          => (/\ OpenAs(tcp.m, PublicKey(engines[tcp.from]), engines[t].privateKey)
                    = [valid |-> TRUE, out |-> tcp.plain]
              /\ \A x \in OutsiderScalars :
                    (KeyBytes(x) # engines[t].privateKey
                        /\ KeyBytes(x) # engines[tcp.from].privateKey)
                      => ~OpenAs(tcp.m, PublicKey(engines[tcp.from]), KeyBytes(x)).valid)

\* a message for another engine's key from a sender whose cache is for a different key
C23_Witness ==
    /\ tcp.from \in Slots
    /\ tcp.m.version = publicKeyVersion
    /\ \E t \in Slots : t # tcp.from /\ engines[t].ready /\ tcp.peer = PublicKey(engines[t])
    /\ engines[tcp.from].preSharedInitialized
    /\ engines[tcp.from].sharedKey # Precompute(tcp.peer, engines[tcp.from].privateKey)
    /\ phase = "sealed"

-----------------------------------------------------------------------------
(* Claims on what Decrypt leaves in the engine                             *)

\* the peer key, the shared key and the flag of engine s are left as they were
CacheUnchanged(s) ==
    /\ engines'[s].peerPublicKey = engines[s].peerPublicKey
    /\ engines'[s].sharedKey = engines[s].sharedKey
    /\ engines'[s].preSharedInitialized = engines[s].preSharedInitialized

\* the step is a Decrypt call of engine s
DecryptStep(s) == lastOp'.op = "Decrypt" /\ lastOp'.engine = s /\ calls' = calls + 1

\* C24 (as stated): a Decrypt that returns KeyNotValidError or MessageDecryptionError,
\* and every Decrypt of a message of the symmetric version, leaves peerPublicKey,
\* sharedKey and the flag as they were.
C24_FailedDecryptLeavesCache ==
    [][\A s \in Slots :
        (DecryptStep(s) /\ (lastOp'.err # NoError \/ stored.m.version = secretKeyVersion))
            => CacheUnchanged(s)
      ]_vars

\* C24 (amended): a Decrypt that returns KeyNotValidError, and every Decrypt of a
\* message of the symmetric version, leaves peerPublicKey, sharedKey and the flag as
\* they were; a Decrypt of another version that returns MessageDecryptionError has
\* stored the first 32 bytes of its key argument in peerPublicKey and set the flag,
\* with sharedKey computed for that key if the flag was unset and kept otherwise.
C24_DecryptCacheEffect ==
    [][\A s \in Slots :
        DecryptStep(s) =>
            /\ (lastOp'.err = KeyNotValidError \/ stored.m.version = secretKeyVersion)
                  => CacheUnchanged(s)
            /\ (lastOp'.err = MessageDecryptionError /\ stored.m.version # secretKeyVersion)
                  => /\ engines'[s].peerPublicKey = SubSeq(lastOp'.key, 1, keySize)
                     /\ engines'[s].preSharedInitialized
                     /\ engines'[s].sharedKey =
                            IF engines[s].preSharedInitialized THEN engines[s].sharedKey
                            ELSE Precompute(SubSeq(lastOp'.key, 1, keySize),
                                            engines[s].privateKey)
      ]_vars

\* a failed Decrypt by an engine that never sealed: its cache is the failed call's
C24_Witness ==
    /\ lastOp.op = "Decrypt"
    /\ lastOp.err = MessageDecryptionError
    /\ stored.m.version = publicKeyVersion
    /\ lastOp.engine \in Slots
    /\ LET e == engines[lastOp.engine]
       IN  /\ e.counter = 0
           /\ e.preSharedInitialized
           /\ e.peerPublicKey = lastOp.key
           /\ e.sharedKey = Precompute(lastOp.key, e.privateKey)

-----------------------------------------------------------------------------
(* SpecVersion: messages that arrive with another version in their header  *)

\* the version values a received header carries
WireVersions == {secretKeyVersion, publicKeyVersion, 2, -1}

\* the 4 version bytes of the encoded message replaced by those of v, once
Retag(v) ==
    /\ phase = "encoded"
    /\ wire = ToBytes(tcp.m).data
    /\ v # tcp.m.version
    /\ wire' = SubSeq(wire, 1, 8) \o ToInt(v) \o SubSeq(wire, 13, Len(wire))
    /\ UNCHANGED <<files, engines, rnd, calls, faulty, lastOp, tcp, stored, phase,
                   threads, issued, writers>>

NextVersion ==
    \/ \E s \in Peers : InitEngine(s, {})
    \/ \E s \in Peers, p \in Plaintexts : EncryptSymmetric(s, p)
    \/ \E s \in Peers, p \in Plaintexts :
          /\ engines[PeerOf(s)].ready
          /\ EncryptAsymmetric(s, p, PublicKey(engines[PeerOf(s)]))
    \/ Send
    \/ \E v \in WireVersions : Retag(v)
    \/ Receive
    \/ \E s \in Peers :
          /\ engines[PeerOf(s)].ready
          /\ \E k \in {NilSlice, PublicKey(engines[PeerOf(s)])} : DecryptStored(s, k)

SpecVersion == Init /\ [][NextVersion]_vars

\* C25: Decrypt opens a message of version 0 with secretKey whatever the key
\* argument, and handles a message of any other version, 1 or not, as an asymmetric
\* one: KeyNotValidError for a nil key, otherwise the result of opening it with the
\* shared key; no version is refused.
C25_DispatchOnSymmetricTagOnly ==
    (lastOp.op = "Decrypt" /\ phase = "parsed" /\ stored.m.version \in WireVersions) =>
        LET e == engines[lastOp.engine]
            sym == SecretboxOpen(stored.m.message, stored.m.nonce, e.secretKey)
            asym == OpenAfterPrecomputation(stored.m.message, stored.m.nonce, e.sharedKey)
        IN  IF stored.m.version = secretKeyVersion
            THEN /\ lastOp.err = (IF sym.valid THEN NoError ELSE MessageDecryptionError)
                 /\ lastOp.out = sym.out
            ELSE IF lastOp.key = NilSlice
            THEN lastOp.err = KeyNotValidError /\ lastOp.out = NilSlice
            ELSE /\ lastOp.err = (IF asym.valid THEN NoError ELSE MessageDecryptionError)
                 /\ lastOp.out = asym.out

\* an asymmetric message that arrived as version 2 or -1 and was opened all the same
C25_Witness ==
    /\ lastOp.op = "Decrypt"
    /\ phase = "parsed"
    /\ stored.m.version \in {2, -1}
    /\ tcp.m.version = publicKeyVersion
    /\ lastOp.err = NoError
    /\ lastOp.out = tcp.plain

-----------------------------------------------------------------------------
(* SpecLabel: deriveNonce called twice, for any two (context, counter)     *)

MaxLabelCounter == 12

\* identifiers handed to InitCryptoEngine; the context is the sanitized identifier
LabelIdentifiers == {<<"a">>, <<"a", "1">>, <<"A", " ", "1">>, <<"b">>}

LabelKeys == {KeyBytes(1), KeyBytes(2)}

\* one call of deriveNonce(masterKey, salt, context, counter)
DeriveLabel(masterKey, salt, id, counter) ==
    /\ Len(issued) <= 1
    /\ LET context == sanitizeIdentifier(id)
           d == deriveNonce(masterKey, salt, context, counter)
       IN  issued' = Append(issued, [masterKey |-> masterKey, salt |-> salt,
                                     context |-> context, counter |-> counter,
                                     label |-> InfoLabel(context, counter),
                                     nonce |-> d.nonce])
    /\ UNCHANGED <<files, engines, rnd, calls, faulty, lastOp, tcp, wire, stored, phase,
                   threads, writers>>

NextLabel ==
    \E k \in LabelKeys, id \in LabelIdentifiers, c \in 0..MaxLabelCounter :
        DeriveLabel(k, KeyBytes(3), id, c)

SpecLabel == Init /\ [][NextLabel]_vars

\* C26: two calls of deriveNonce with the same nonceKey and salt and different
\* (context, counter) pairs build different labels and derive different nonces.
C26_LabelInjectiveInPair ==
    \A i, j \in 1..Len(issued) :
        (/\ issued[i].masterKey = issued[j].masterKey
         /\ issued[i].salt = issued[j].salt
         /\ <<issued[i].context, issued[i].counter>> # <<issued[j].context, issued[j].counter>>)
        => /\ issued[i].label # issued[j].label
           /\ issued[i].nonce # issued[j].nonce

====
